---- MODULE Spec2Model ----
(***************************************************************************)
(* redis_queue_mover (src/tools/redis_queue_mover.cpp): the engine (main), *)
(* the signal thread, the stat thread and the move threads, as a state     *)
(* machine.  One action per thread step; a step is one access to shared    *)
(* state (g_stop, g_num_moved, a redis list, the output file) together     *)
(* with the thread-local computation that follows it.                      *)
(*                                                                         *)
(* The redis client (r3c) is outside the program: rpop and lpush are       *)
(* atomic on the list, a call that throws CRedisException has had no       *)
(* effect.  Source and destination stores are distinct and the destination *)
(* lists start empty.  Of the log output only the stat log is state.       *)
(***************************************************************************)
EXTENDS Integers, Sequences, FiniteSets, TLC

\* ------------------------------------------------------------- bounds
MaxItems == 3      \* values in the source lists at start (one move thread)
MaxBatch == 2      \* largest --batch drawn
MaxIndex == 120    \* largest queue index the key functions are evaluated at

\* ------------------------------------------------------- small helpers
Reverse(s) == [j \in 1..Len(s) |-> s[Len(s) + 1 - j]]

IsPrefix(s, t) == Len(s) <= Len(t) /\ SubSeq(t, 1, Len(s)) = s

Range(s) == {s[j] : j \in 1..Len(s)}

RECURSIVE SumOver(_, _)
SumOver(f, S) ==
    IF S = {} THEN 0
    ELSE LET x == CHOOSE y \in S : TRUE IN f[x] + SumOver(f, S \ {x})

Lengths(f) == SumOver([key \in DOMAIN f |-> Len(f[key])], DOMAIN f)

\* The opaque values: Item(1), Item(2), ... are distinct, one byte each.
Items == <<"a", "b", "c", "d", "e">>
Item(n) == Items[n]
Bytes(v) == <<v>>

\* printf's %d for a non-negative int
Digits == <<"0", "1", "2", "3", "4", "5", "6", "7", "8", "9">>
RECURSIVE Decimal(_)
Decimal(n) == IF n < 10 THEN Digits[n + 1]
              ELSE Decimal(n \div 10) \o Digits[(n % 10) + 1]

\* ------------------------------------------------------------- state
VARIABLES
    arg,            \* the parsed command line (never changes)
    mainpc, mi,     \* main: position, move threads created (i of line 184)
    g_stop,         \* CAtomic<bool> g_stop
    g_num_moved,    \* atomic8_t g_num_moved
    src, dst,       \* the redis lists by key, head first
    file,           \* the bytes of --dst_file, in order
    pc,             \* move thread: position
    k,              \* move thread: the for loop's k
    values,         \* move thread: std::vector<std::string> values
    value,          \* move thread: std::string value (file mode, before write)
    dst_fd,         \* move thread: dst_fd
    oflag,          \* the access mode dst_fd was opened with
    num_moved,      \* move thread: uint32_t num_moved
    sigpc,          \* signal thread: position
    statpc,         \* stat thread: position
    old_num_moved,  \* stat thread: old_num_moved
    stat_log,       \* the lines log_raw has written to the stat log, in order
    src0,           \* history: the source lists at start
    popped,         \* history: per move thread, the values it popped, in order
    retried,        \* history: an lpush of the current Batch has failed
    taken,          \* history: values popped in the current accumulation pass
    write_failed    \* history: the move thread has seen write() return -1

engine  == <<mainpc, mi>>
shared  == <<g_stop, g_num_moved>>
stores  == <<src, dst, file>>
mover   == <<pc, k, values, value, dst_fd, oflag, num_moved>>
helpers == <<sigpc, statpc, old_num_moved, stat_log>>
history == <<src0, popped, retried, taken, write_failed>>
vars    == <<arg, engine, shared, stores, mover, helpers, history>>

\* ------------------------------------------------------ configuration
num_threads == arg.queues * arg.threads
Movers == 0..(num_threads - 1)

get_src_key_always_indexed(i) == arg.src_prefix \o Decimal(i)

\* lines 386-392
get_src_key(i) ==
    IF 1 = arg.src_only_prefix THEN arg.src_prefix
    ELSE arg.src_prefix \o Decimal(i)

\* lines 394-400
get_dst_key(i) ==
    IF 1 = arg.dst_only_prefix THEN arg.dst_prefix
    ELSE arg.dst_prefix \o Decimal(i)

src_key(w) == get_src_key(w % arg.queues)
dst_key(w) == get_dst_key(w % arg.queues)

SrcKeys == {src_key(w) : w \in Movers}
DstKeys == {dst_key(w) : w \in Movers}

RedisMode == arg.dst_redis # ""

ArgsValid_without_dst_prefix ==
    /\ arg.src_redis # ""
    /\ ~(arg.dst_redis = "" /\ arg.dst_file = "")
    /\ arg.src_prefix # ""

\* main's checks of the parsed arguments
ArgsValid ==
    /\ arg.src_redis # ""
    /\ ~(arg.dst_redis = "" /\ arg.dst_file = "")
    /\ arg.src_prefix # ""
    /\ ~(arg.dst_redis # "" /\ arg.dst_prefix = "")

\* <<dst_redis, dst_prefix, dst_file>>
DstChoices == { <<"", "", "">>, <<"", "", "/data/out">>,
                <<"d:6379", "", "">>, <<"d:6379", "p:", "">> }

\* <<queues, threads, src_only_prefix, dst_only_prefix>>
Layouts == { <<1, 1, 0, 0>>, <<1, 1, 1, 1>>, <<1, 2, 0, 0>>, <<2, 1, 0, 0>> }

Args ==
    { [ src_redis |-> sr, src_prefix |-> sp,
        dst_redis |-> d[1], dst_prefix |-> d[2], dst_file |-> d[3],
        queues |-> l[1], threads |-> l[2],
        src_only_prefix |-> l[3], dst_only_prefix |-> l[4],
        batch |-> b ] :
      sr \in {"", "s:6379"}, sp \in {"", "q:"}, d \in DstChoices,
      l \in Layouts, b \in 1..MaxBatch }

\* The source lists at start: the list of the j-th key holds the next n[j]
\* items, the first of them at the tail (rpop takes the tail).  With more
\* than one move thread the lists hold one value less in total.
Fill(from, n) == [j \in 1..n |-> Item(from + n - j)]

Offset(n, q) == 1 + SumOver(n, 0..(q - 1))

FirstQueueOf(key) ==
    CHOOSE q \in 0..(arg.queues - 1) :
        /\ get_src_key(q) = key
        /\ \A q2 \in 0..(q - 1) : get_src_key(q2) # key

Fills ==
    { n \in [0..(arg.queues - 1) -> 0..MaxItems] :
        /\ SumOver(n, 0..(arg.queues - 1)) <= MaxItems - (num_threads - 1)
        /\ \A q \in 0..(arg.queues - 1) :
              get_src_key(q) # get_src_key(0) \/ q = 0 \/ n[q] = 0 }

SrcInit(n) ==
    [key \in SrcKeys |-> Fill(Offset(n, FirstQueueOf(key)), n[FirstQueueOf(key)])]

Init ==
    /\ arg \in Args
    /\ mainpc = "validate" /\ mi = 0
    /\ g_stop = FALSE
    /\ g_num_moved = 0
    /\ \E n \in Fills : src = SrcInit(n)
    /\ dst = [key \in DstKeys |-> <<>>]
    /\ file = <<>>
    /\ pc = [w \in Movers |-> "unborn"]
    /\ k = [w \in Movers |-> 0]
    /\ values = [w \in Movers |-> <<>>]
    /\ value = [w \in Movers |-> <<>>]
    /\ dst_fd = [w \in Movers |-> -1]
    /\ oflag = [w \in Movers |-> "none"]
    /\ num_moved = [w \in Movers |-> 0]
    /\ sigpc = "unborn" /\ statpc = "unborn" /\ old_num_moved = 0
    /\ stat_log = <<>>
    /\ src0 = src
    /\ popped = [w \in Movers |-> <<>>]
    /\ retried = [w \in Movers |-> FALSE]
    /\ taken = [w \in Movers |-> 0]
    /\ write_failed = [w \in Movers |-> FALSE]

\* ---------------------------------------------------------------- main
\* lines 128-153: any failed check ends the process with exit(1)
MainValidate ==
    /\ mainpc = "validate"
    /\ mainpc' = IF ArgsValid THEN "init" ELSE "exit1"
    /\ UNCHANGED <<arg, mi, shared, stores, mover, helpers, history>>

\* lines 155-176: the counter is set to 0 and the logger created;
\* create_safe_logger may throw CSyscallException: lines 207-211, exit(1)
MainInit ==
    /\ mainpc = "init"
    /\ g_num_moved' = 0
    /\ \E created \in BOOLEAN :
          mainpc' = IF created THEN "spawn" ELSE "exit1"
    /\ UNCHANGED <<arg, mi, g_stop, stores, mover, helpers, history>>

\* lines 178-187: the signal thread, the stat thread, then move thread i for
\* every i < num_threads.  A created thread has not run yet.
MainSpawn ==
    /\ mainpc = "spawn"
    /\ sigpc' = "run"
    /\ statpc' = "start"
    /\ pc' = [w \in Movers |-> "start"]
    /\ mi' = num_threads
    /\ mainpc' = "join_move"
    /\ UNCHANGED <<arg, shared, stores, k, values, value, dst_fd, oflag,
                   num_moved, old_num_moved, stat_log, history>>

return_after_join_move == "exit0"

\* lines 193-196: after the move threads, stat_thread->join()
after_join_move == "join_stat"

\* lines 188-193: join() of every move thread in turn
MainJoinMove ==
    /\ mainpc = "join_move"
    /\ \A w \in Movers : pc[w] = "done"
    /\ mainpc' = after_join_move
    /\ UNCHANGED <<arg, mi, shared, stores, mover, helpers, history>>

\* lines 195-196
MainJoinStat ==
    /\ mainpc = "join_stat"
    /\ statpc = "done"
    /\ mainpc' = "join_signal"
    /\ UNCHANGED <<arg, mi, shared, stores, mover, helpers, history>>

\* lines 197-200
MainJoinSignal ==
    /\ mainpc = "join_signal"
    /\ sigpc = "done"
    /\ mainpc' = "exit0"
    /\ UNCHANGED <<arg, mi, shared, stores, mover, helpers, history>>

\* The threads run while the process does: it has not been ended by an
\* exception that no handler caught.
Running == mainpc # "aborted"

\* ------------------------------------------------------- signal thread
\* CSignalHandler::handle blocks until a signal is delivered; a termination
\* signal runs on_terminated, any other signal runs a NULL handler.
SignalsDelivered == {"terminate", "other"}

\* line 216
on_terminated == TRUE

\* lines 221-224, one turn of the loop: the test, and if it passes the
\* signal that ends the wait in handle()
SignalLoop ==
    /\ Running
    /\ sigpc = "run"
    /\ IF g_stop
       THEN /\ sigpc' = "done"
            /\ UNCHANGED g_stop
       ELSE /\ \E s \in SignalsDelivered :
                  g_stop' = IF s = "terminate" THEN on_terminated ELSE g_stop
            /\ UNCHANGED sigpc
    /\ UNCHANGED <<arg, engine, g_num_moved, stores, mover, statpc, old_num_moved, stat_log,
                   history>>

\* --------------------------------------------------------- stat thread
\* lines 231-242: create_safe_logger may throw CSyscallException (line 261),
\* else the first while (!g_stop)
StatStart ==
    /\ Running
    /\ statpc = "start"
    /\ \E created \in BOOLEAN :
          statpc' = IF created /\ ~g_stop THEN "sleep" ELSE "done"
    /\ UNCHANGED <<arg, engine, shared, stores, mover, sigpc, old_num_moved, stat_log,
                   history>>

\* line 90: --stat_interval, at its default
stat_interval == 2

emits_also_equal(last_num_moved, old) == last_num_moved >= old

\* line 251
emits(last_num_moved, old) == last_num_moved > old

\* lines 253-255: " %PRId64 %PRId64 %PRId64 %d/s MOVED": the four numbers
stat_line(last_num_moved, old) ==
    <<last_num_moved, old, last_num_moved - old,
      (last_num_moved - old) \div stat_interval>>

\* lines 244-258: the sleep is over; read the counter, log if it has grown,
\* old_num_moved = it
StatSample ==
    /\ Running
    /\ statpc = "sleep"
    /\ LET last_num_moved == g_num_moved IN
          /\ stat_log' = IF emits(last_num_moved, old_num_moved)
                         THEN Append(stat_log, stat_line(last_num_moved, old_num_moved))
                         ELSE stat_log
          /\ old_num_moved' = last_num_moved
    /\ statpc' = "test"
    /\ UNCHANGED <<arg, engine, shared, stores, mover, sigpc, history>>

\* line 242: while (!g_stop)
StatTest ==
    /\ Running
    /\ statpc = "test"
    /\ statpc' = IF g_stop THEN "done" ELSE "sleep"
    /\ UNCHANGED <<arg, engine, shared, stores, mover, sigpc, old_num_moved, stat_log,
                   history>>

\* --------------------------------------------------------- the stores
\* rpop: "ok" with the tail of a non-empty list, "nil" (returns false) on an
\* empty one, or CRedisException.
RpopResults(list) == {"exception"} \cup (IF list = <<>> THEN {"nil"} ELSE {"ok"})

rpop_value(list) == list[Len(list)]

rpop_rest(list) == SubSeq(list, 1, Len(list) - 1)

\* RPUSH key v1 v2 ...: each value in turn becomes the tail
rpush(list, vals) == list \o vals

\* LPUSH key v1 v2 ...: each value in turn becomes the head
lpush(list, vals) == Reverse(vals) \o list

LpushResults == {"ok", "exception"}

\* open(path, flags): the descriptor's access mode is the one asked for
OpenFlags == "O_RDONLY"

OpenResults == {"fd", "failed"}

\* write(fd, buf, n): -1 (EBADF) on a descriptor not open for writing,
\* else -1 or n
WriteResults(flags, n) == IF flags = "O_RDONLY" THEN {-1} ELSE {-1, n}

\* ---------------------------------------------------------- move thread
for_continues_off_by_one(stop, kk) == ~stop /\ kk <= arg.batch

for_ignores_stop(stop, kk) == kk < arg.batch

\* line 315: !g_stop && k<batch
for_continues(stop, kk) == ~stop /\ kk < arg.batch

clear_after_rpop_exception(vec) == <<>>

\* lines 341-344: the catch of the for loop logs; values stays as it is
after_rpop_exception(vec) == vec

push_front(vec, v) == <<v>> \o vec

\* line 328
push_back(vec, v) == Append(vec, v)

\* line 331: value.append("\n"), as bytes
with_newline(v) == Bytes(v) \o <<"\n">>

\* lines 346-350: an empty values sleeps and continues, else the push loop
after_for(vec) == IF vec = <<>> THEN "idle" ELSE "push"

count_one(vec) == 1

count_batch(vec) == arg.batch

\* line 359
num_moved_(vec) == Len(vec)

give_up_after_push_exception == "top"

count_after_push_exception == "add"

\* lines 374-378: log, millisleep, and the while loop tries again
after_push_exception == "retry"

\* lines 274-277: r3c::CRedisClient src_redis(...), constructed before the try
\* of line 283
SrcConnectResults == {"ok", "exception"}

\* lines 285-289: new r3c::CRedisClient(...) for the destination, inside the try
DstConnectResults == {"ok", "exception"}

\* the CRedisException of lines 274-277 has no handler in move_thread_proc and
\* leaves the thread's function: the process ends (std::terminate)
after_src_connect_exception == "aborted"

\* lines 269-310
MoveStart(w, flags) ==
    /\ Running
    /\ pc[w] = "start"
    /\ \E s \in SrcConnectResults :
          IF s = "exception"
          THEN /\ mainpc' = after_src_connect_exception
               /\ UNCHANGED <<pc, dst_fd, oflag>>
          ELSE /\ UNCHANGED mainpc
               /\ IF RedisMode
                  THEN /\ \E d \in DstConnectResults :
                            pc' = [pc EXCEPT ![w] = IF d = "ok" THEN "top" ELSE "done"]
                       /\ UNCHANGED <<dst_fd, oflag>>
                  ELSE \E r \in OpenResults :
                          IF r = "fd"
                          THEN /\ dst_fd' = [dst_fd EXCEPT ![w] = 3 + w]
                               /\ oflag' = [oflag EXCEPT ![w] = flags]
                               /\ pc' = [pc EXCEPT ![w] = "top"]
                          ELSE /\ pc' = [pc EXCEPT ![w] = "done"]
                               /\ UNCHANGED <<dst_fd, oflag>>
    /\ UNCHANGED <<arg, mi, shared, stores, k, values, value, num_moved,
                   helpers, history>>

\* lines 311-313: while (!g_stop), values.clear(), and k=0 of line 315;
\* lines 382-384 when the loop ends: close(dst_fd)
MoveTop(w) ==
    /\ Running
    /\ pc[w] = "top"
    /\ IF g_stop
       THEN /\ pc' = [pc EXCEPT ![w] = "done"]
            /\ oflag' = [oflag EXCEPT ![w] = IF dst_fd[w] = -1 THEN @ ELSE "closed"]
            /\ UNCHANGED <<k, values, retried, taken>>
       ELSE /\ pc' = [pc EXCEPT ![w] = "for"]
            /\ values' = [values EXCEPT ![w] = <<>>]
            /\ k' = [k EXCEPT ![w] = 0]
            /\ retried' = [retried EXCEPT ![w] = FALSE]
            /\ taken' = [taken EXCEPT ![w] = 0]
            /\ UNCHANGED oflag
    /\ UNCHANGED <<arg, engine, shared, stores, value, dst_fd, num_moved,
                   helpers, src0, popped, write_failed>>

\* lines 315-345: the loop test and one rpop.  k and value live inside the for
\* statement: outside it they are 0 and <<>>.
MoveFor(w) ==
    /\ Running
    /\ pc[w] = "for"
    /\ IF ~for_continues(g_stop, k[w])
       THEN /\ pc' = [pc EXCEPT ![w] = after_for(values[w])]
            /\ k' = [k EXCEPT ![w] = 0]
            /\ UNCHANGED <<src, values, value, popped, taken>>
       ELSE \E r \in RpopResults(src[src_key(w)]) :
              CASE r = "exception" ->
                     /\ k' = [k EXCEPT ![w] = k[w] + 1]
                     /\ values' = [values EXCEPT ![w] = after_rpop_exception(@)]
                     /\ UNCHANGED <<src, pc, value, popped, taken>>
                [] r = "nil" ->
                     /\ pc' = [pc EXCEPT ![w] = after_for(values[w])]
                     /\ k' = [k EXCEPT ![w] = 0]
                     /\ UNCHANGED <<src, values, value, popped, taken>>
                [] r = "ok" ->
                     /\ src' = [src EXCEPT ![src_key(w)] = rpop_rest(@)]
                     /\ popped' = [popped EXCEPT
                                     ![w] = Append(@, rpop_value(src[src_key(w)]))]
                     /\ taken' = [taken EXCEPT ![w] = @ + 1]
                     /\ IF RedisMode
                        THEN /\ values' = [values EXCEPT
                                   ![w] = push_back(@, rpop_value(src[src_key(w)]))]
                             /\ k' = [k EXCEPT ![w] = k[w] + 1]
                             /\ UNCHANGED <<pc, value>>
                        ELSE /\ value' = [value EXCEPT
                                   ![w] = with_newline(rpop_value(src[src_key(w)]))]
                             /\ pc' = [pc EXCEPT ![w] = "write"]
                             /\ UNCHANGED <<k, values>>
    /\ UNCHANGED <<arg, engine, shared, dst, file, dst_fd, oflag, num_moved,
                   helpers, src0, retried, write_failed>>

\* lines 332-338: write(dst_fd, ...); on -1, g_stop = false and break
MoveWrite(w) ==
    /\ Running
    /\ pc[w] = "write"
    /\ \E r \in WriteResults(oflag[w], Len(value[w])) :
          IF r = -1
          THEN /\ g_stop' = FALSE
               /\ pc' = [pc EXCEPT ![w] = after_for(values[w])]
               /\ write_failed' = [write_failed EXCEPT ![w] = TRUE]
               /\ k' = [k EXCEPT ![w] = 0]
               /\ UNCHANGED file
          ELSE /\ file' = file \o value[w]
               /\ k' = [k EXCEPT ![w] = k[w] + 1]
               /\ pc' = [pc EXCEPT ![w] = "for"]
               /\ UNCHANGED <<g_stop, write_failed>>
    /\ value' = [value EXCEPT ![w] = <<>>]
    /\ UNCHANGED <<arg, engine, g_num_moved, src, dst, values, dst_fd,
                   oflag, num_moved, helpers, src0, popped, retried, taken>>

\* line 348: millisleep(retry_interval) is over; continue
MoveIdle(w) ==
    /\ Running
    /\ pc[w] = "idle"
    /\ pc' = [pc EXCEPT ![w] = "top"]
    /\ UNCHANGED <<arg, engine, shared, stores, k, values, value, dst_fd, oflag,
                   num_moved, helpers, history>>

\* lines 352-357 and 374-378: one lpush of values
MovePush(w) ==
    /\ Running
    /\ pc[w] = "push"
    /\ IF values[w] = <<>>
       THEN /\ pc' = [pc EXCEPT ![w] = "top"]
            /\ UNCHANGED <<dst, retried>>
       ELSE \E r \in LpushResults :
              IF r = "ok"
              THEN /\ dst' = IF dst_fd[w] = -1
                             THEN [dst EXCEPT ![dst_key(w)] = lpush(@, values[w])]
                             ELSE dst
                   /\ pc' = [pc EXCEPT ![w] = "add"]
                   /\ UNCHANGED retried
              ELSE /\ pc' = [pc EXCEPT ![w] = after_push_exception]
                   /\ retried' = [retried EXCEPT ![w] = TRUE]
                   /\ UNCHANGED dst
    /\ UNCHANGED <<arg, engine, shared, src, file, k, values, value, dst_fd, oflag,
                   num_moved, helpers, src0, popped, taken, write_failed>>

\* line 377: millisleep(retry_interval) is over
MoveRetry(w) ==
    /\ Running
    /\ pc[w] = "retry"
    /\ pc' = [pc EXCEPT ![w] = "push"]
    /\ UNCHANGED <<arg, engine, shared, stores, k, values, value, dst_fd, oflag,
                   num_moved, helpers, history>>

\* lines 359-372: atomic8_add, num_moved, break
MoveAdd(w) ==
    /\ Running
    /\ pc[w] = "add"
    /\ g_num_moved' = g_num_moved + num_moved_(values[w])
    /\ num_moved' = [num_moved EXCEPT ![w] = @ + num_moved_(values[w])]
    /\ pc' = [pc EXCEPT ![w] = "top"]
    /\ UNCHANGED <<arg, engine, g_stop, stores, k, values, value, dst_fd, oflag,
                   helpers, history>>

MoveThread(w, flags) ==
    \/ MoveStart(w, flags) \/ MoveTop(w) \/ MoveFor(w) \/ MoveWrite(w)
    \/ MoveIdle(w) \/ MovePush(w) \/ MoveRetry(w) \/ MoveAdd(w)

StatThread == StatStart \/ StatSample \/ StatTest

Main == MainValidate \/ MainInit \/ MainSpawn \/ MainJoinMove \/ MainJoinStat \/ MainJoinSignal

\* one step of the program; flags are the flags of the open() of line 293
Step(flags) ==
    \/ MainValidate
    \/ MainInit
    \/ MainSpawn
    \/ MainJoinMove
    \/ MainJoinStat
    \/ MainJoinSignal
    \/ SignalLoop
    \/ StatStart
    \/ StatSample
    \/ StatTest
    \/ \E w \in Movers : MoveStart(w, flags)
    \/ \E w \in Movers : MoveTop(w)
    \/ \E w \in Movers : MoveFor(w)
    \/ \E w \in Movers : MoveWrite(w)
    \/ \E w \in Movers : MoveIdle(w)
    \/ \E w \in Movers : MovePush(w)
    \/ \E w \in Movers : MoveRetry(w)
    \/ \E w \in Movers : MoveAdd(w)

Next == Step(OpenFlags)

Spec == Init /\ [][Next]_vars

\* Every thread that can take a step eventually takes one.  No signal is
\* required to arrive: the signal thread is only required to notice g_stop.
AllMovers == UNION { 0..(l[1] * l[2] - 1) : l \in Layouts }

Fairness ==
    /\ WF_vars(Main)
    /\ WF_vars(g_stop /\ SignalLoop)
    /\ WF_vars(StatThread)
    /\ \A w \in AllMovers : WF_vars(w \in Movers /\ MoveThread(w, OpenFlags))

\* the runs with one move thread and at most one value
InitOne == Init /\ num_threads = 1 /\ Lengths(src) <= 1

FairSpec == InitOne /\ [][Next]_vars /\ Fairness

\* The program with the descriptor of line 293 open for writing: the only
\* runs in which a write() of line 332 can return other than -1.
NextWritable == Step("O_WRONLY")

SpecWritable == Init /\ [][NextWritable]_vars

\* ------------------------------------------------------ shared notions
\* rpop takes the tail: the order in which rpop returns a list's values
PopOrder(list) == Reverse(list)

\* The Batch a move thread holds: popped and not yet pushed.  After the
\* lpush has returned, values keeps its (pushed) contents until the next
\* values.clear().
Batch(w) == IF pc[w] \in {"for", "push", "retry"} THEN values[w] ELSE <<>>

Count(v, seq) == Cardinality({j \in 1..Len(seq) : seq[j] = v})

\* the only move thread on its source key and on its destination key
SoleOnPair(w) ==
    \A v \in Movers \ {w} : src_key(v) # src_key(w) /\ dst_key(v) # dst_key(w)

\* ---------------------------------------------------------------- C1
\* C1: redis destination, one move thread on the Queue Pair: at every state the
\* rpop order of the destination list is a prefix of the rpop order v1..vK the
\* source list had at start, and once the source is empty and the thread holds
\* no Batch it is exactly v1..vK.
C1_OrderPreserved ==
    \A w \in Movers :
        (RedisMode /\ SoleOnPair(w)) =>
            /\ IsPrefix(PopOrder(dst[dst_key(w)]), PopOrder(src0[src_key(w)]))
            /\ (src[src_key(w)] = <<>> /\ Batch(w) = <<>>)
                  => PopOrder(dst[dst_key(w)]) = PopOrder(src0[src_key(w)])

\* three values moved in a Batch of two and a Batch of one
C1_Witness ==
    /\ RedisMode /\ num_threads = 1 /\ arg.batch = 2
    /\ src0[src_key(0)] = <<"c", "b", "a">>
    /\ src[src_key(0)] = <<>> /\ Batch(0) = <<>>
    /\ dst[dst_key(0)] = <<"c", "b", "a">>
    /\ num_moved[0] = 3

\* ---------------------------------------------------------------- C4
\* C4: redis destination, any number of move threads: every value a source
\* list held at start is, at every state, at exactly one place among all the
\* source lists, all the Batches and all the destination lists, and that place
\* is its source list, the Batch of a thread on that source, or that thread's
\* destination list.
Slots(f) == UNION { {<<x, j>> : j \in 1..Len(f[x])} : x \in DOMAIN f }

Holding(f, v) == Cardinality({s \in Slots(f) : f[s[1]][s[2]] = v})

Places(v) ==
    Holding(src, v) + Holding([w \in Movers |-> Batch(w)], v) + Holding(dst, v)

C4_NoLossNoDuplication ==
    RedisMode =>
        \A key \in SrcKeys : \A v \in Range(src0[key]) :
            /\ Places(v) = 1
            /\ \/ v \in Range(src[key])
               \/ \E w \in Movers :
                     /\ src_key(w) = key
                     /\ v \in Range(Batch(w)) \cup Range(dst[dst_key(w)])

\* two move threads, one waiting to retry a failed push, the other's value
\* already on the destination
C4_Witness ==
    /\ RedisMode
    /\ \E w1, w2 \in Movers :
          /\ w1 # w2
          /\ pc[w1] = "retry" /\ retried[w1] /\ Batch(w1) # <<>>
          /\ num_moved[w2] >= 1
          /\ dst[dst_key(w2)] # <<>>

\* ---------------------------------------------------------------- C5
\* C5: redis destination: whenever no move thread holds a Batch or has a
\* pushed Batch still to count, g_num_moved equals the number of values on the
\* destination lists and equals the sum of the threads' own num_moved.
Quiescent == \A w \in Movers : Batch(w) = <<>> /\ pc[w] # "add"

C5_CounterCorrect ==
    (RedisMode /\ Quiescent) =>
        /\ g_num_moved = Lengths(dst)
        /\ g_num_moved = SumOver(num_moved, Movers)

\* two move threads have each delivered, and all is counted
C5_Witness ==
    /\ RedisMode /\ Quiescent
    /\ \E w1, w2 \in Movers : w1 # w2 /\ num_moved[w1] >= 1 /\ num_moved[w2] >= 1
    /\ g_num_moved = 2

\* ---------------------------------------------------------------- C7
\* C7: values never holds more than --batch values, and a move thread at the
\* lpush (or between a failed lpush and the next) holds at least one.
C7_BatchBounded ==
    \A w \in Movers :
        /\ Len(values[w]) <= arg.batch
        /\ pc[w] \in {"push", "retry", "add"} => Len(values[w]) >= 1

\* a full Batch of two about to be pushed while the source still holds a value
C7_Witness ==
    \E w \in Movers :
        /\ pc[w] = "push" /\ arg.batch = 2 /\ Len(values[w]) = arg.batch
        /\ src[src_key(w)] # <<>>

\* ---------------------------------------------------------------- C2
AllTerminated ==
    \/ ~Running
    \/ /\ sigpc = "done"
       /\ statpc = "done"
       /\ \A w \in Movers : pc[w] = "done"

\* C2: (redis destination) once g_stop is true, the signal thread, the stat
\* thread and every move thread eventually end, whatever the lpush calls do.
C2_ShutdownTerminates == (RedisMode /\ g_stop) ~> AllTerminated

\* ---------------------------------------------------------------- C3
\* C3: g_stop starts false and no step takes it from true to false.
C3_FlagMonotone == ~g_stop /\ [][g_stop => g_stop']_vars

\* ---------------------------------------------------------------- C6
\* C6: redis destination.  While a move thread is in its push loop it pops
\* nothing and values does not change; a failed lpush changes neither the
\* destination nor the counter; the successful lpush puts the Batch on the
\* destination, in Batch order, and the counter then grows by the Batch's
\* length, once.  At every state each value a thread popped and no longer
\* holds as a Batch is on the destination once, and is counted once.
C6_Step(w) ==
    /\ pc[w] \in {"push", "retry"} =>
          /\ pc'[w] \in {"push", "retry", "add"}
          /\ values'[w] = values[w]
          /\ popped'[w] = popped[w]
          /\ num_moved'[w] = num_moved[w]
    /\ (pc[w] = "push" /\ pc'[w] = "retry") =>
          /\ dst' = dst
          /\ g_num_moved' = g_num_moved
    /\ (pc[w] = "push" /\ pc'[w] = "add") =>
          /\ PopOrder(dst'[dst_key(w)]) = PopOrder(dst[dst_key(w)]) \o values[w]
          /\ \A key \in DstKeys \ {dst_key(w)} : dst'[key] = dst[key]
          /\ g_num_moved' = g_num_moved
    /\ (pc[w] = "add" /\ pc'[w] # "add") =>
          /\ pc'[w] = "top"
          /\ g_num_moved' = g_num_moved + Len(values[w])
          /\ num_moved'[w] = num_moved[w] + Len(values[w])
          /\ dst' = dst

C6_Delivered ==
    RedisMode =>
        \A w \in Movers :
            /\ num_moved[w] + (IF pc[w] = "add" THEN Len(values[w]) ELSE 0)
                 = Len(popped[w]) - Len(Batch(w))
            /\ \A v \in Range(popped[w]) \ Range(Batch(w)) :
                  Count(v, dst[dst_key(w)]) = 1

C6_RetryConvergence == []C6_Delivered /\ [][\A w \in Movers : C6_Step(w)]_vars

\* a Batch of two whose lpush failed and then succeeded, not yet counted
C6_Witness ==
    \E w \in Movers :
        /\ pc[w] = "add" /\ retried[w] /\ Len(values[w]) = 2
        /\ g_num_moved = 0 /\ Len(dst[dst_key(w)]) = 2

\* ---------------------------------------------------------------- C8
\* C8: file mode: a move thread whose write() has failed pops nothing more.
C8_NoPopAfterWriteError ==
    [][\A w \in Movers : write_failed[w] => popped'[w] = popped[w]]_vars

\* ---------------------------------------------------------------- C9
\* the lines of the file: the bytes before each "\n"
RECURSIVE Lines(_, _)
Lines(bytes, cur) ==
    IF bytes = <<>> THEN (IF cur = <<>> THEN <<>> ELSE <<cur>>)
    ELSE IF Head(bytes) = "\n" THEN <<cur>> \o Lines(Tail(bytes), <<>>)
    ELSE Lines(Tail(bytes), Append(cur, Head(bytes)))

FileLines == Lines(file, <<>>)

\* the values a move thread popped and is not about to write
Written(w) ==
    IF pc[w] = "write" THEN SubSeq(popped[w], 1, Len(popped[w]) - 1) ELSE popped[w]

\* C9: file mode: every value a move thread popped (and is past the write of)
\* is a line of the file, and with one move thread the file's lines are the
\* popped values in pop order.
C9_FileHoldsPopped ==
    ~RedisMode =>
        /\ \A w \in Movers : \A v \in Range(Written(w)) : Bytes(v) \in Range(FileLines)
        /\ num_threads = 1 =>
              FileLines = [j \in 1..Len(Written(0)) |-> Bytes(Written(0)[j])]

Delivered == Lengths(dst) + Len(FileLines)

\* C11: g_num_moved never exceeds the number of values delivered so far, and
\* no step makes it smaller (a failed lpush leaves it as it is).
C11_CounterOnlyAfterSuccess ==
    [](g_num_moved <= Delivered) /\ [][g_num_moved' >= g_num_moved]_vars

\* a first Batch delivered and counted, the next one waiting after a failed
\* lpush
C11_Witness ==
    \E w \in Movers :
        /\ pc[w] = "retry" /\ retried[w]
        /\ g_num_moved = 2 /\ Delivered = 2 /\ Len(values[w]) = 1

\* --------------------------------------------------------------- C12
\* the values of seq that move thread w popped, in seq's order
OfThread(w, seq) ==
    LET Mine(v) == v \in Range(popped[w]) IN SelectSeq(seq, Mine)

\* the values move thread w popped and no longer holds as a Batch
Handed(w) == SubSeq(popped[w], 1, Len(popped[w]) - Len(Batch(w)))

C12_State ==
    (RedisMode /\ arg.threads > 1) =>
        \A w \in Movers :
            OfThread(w, PopOrder(dst[dst_key(w)])) = Handed(w)

C12_Step ==
    (RedisMode /\ arg.threads > 1 /\ dst' # dst) =>
        \E w \in Movers :
            /\ pc[w] = "push" /\ pc'[w] = "add"
            /\ PopOrder(dst'[dst_key(w)]) = PopOrder(dst[dst_key(w)]) \o values[w]
            /\ \A key \in DstKeys \ {dst_key(w)} : dst'[key] = dst[key]

C13_StartFails(w) ==
    /\ pc[w] = "start"
    /\ pc'[w] # "top"
    /\ (pc'[w] # pc[w] \/ mainpc' # mainpc)

C13_Step(w) ==
    C13_StartFails(w) =>
        /\ pc'[w] = "done"
        /\ Running'
        /\ popped'[w] = <<>> /\ num_moved'[w] = 0
        /\ UNCHANGED <<shared, stores>>
        /\ \A v \in Movers \ {w} : pc'[v] = pc[v]

\* C13: a move thread whose source connection, destination connection or
\* open() fails ends there, having popped and pushed nothing; the step changes
\* no other thread, no store and no shared variable, and the process goes on.
C13_ConnectErrorsIsolated == []Running /\ [][\A w \in Movers : C13_Step(w)]_vars

\* --------------------------------------------------------------- C14
\* the command lines the claim says are refused
C14_Refused ==
    \/ arg.src_redis = ""
    \/ (arg.dst_redis = "" /\ arg.dst_file = "")
    \/ arg.src_prefix = ""
    \/ (arg.dst_redis # "" /\ arg.dst_prefix = "")

NoneStarted ==
    /\ sigpc = "unborn" /\ statpc = "unborn"
    /\ \A w \in Movers : pc[w] = "unborn"

C14_State == C14_Refused => (mainpc \in {"validate", "exit1"} /\ NoneStarted)

C14_Step ==
    (mainpc = "validate" /\ mainpc' # mainpc) =>
        mainpc' = IF C14_Refused THEN "exit1" ELSE "init"

Numeral(n) ==
    LET d(unit) == Digits[((n \div unit) % 10) + 1] IN
    IF n < 10 THEN d(1)
    ELSE IF n < 100 THEN d(10) \o d(1)
    ELSE IF n < 1000 THEN d(100) \o d(10) \o d(1)
    ELSE d(1000) \o d(100) \o d(10) \o d(1)

\* the key the claim gives for a prefix, a queue index and an only_prefix flag
KeyOf(prefix, index, only_prefix) ==
    IF only_prefix = 1 THEN prefix ELSE prefix \o Numeral(index)

SrcKeyOf(index) == KeyOf(arg.src_prefix, index, arg.src_only_prefix)
DstKeyOf(index) == KeyOf(arg.dst_prefix, index, arg.dst_only_prefix)

Started == {w \in DOMAIN pc : pc[w] # "unborn"}

C15_State ==
    /\ mainpc = "validate" =>
          \A i \in 0..MaxIndex :
              get_src_key(i) = SrcKeyOf(i) /\ get_dst_key(i) = DstKeyOf(i)
    /\ Started # {} =>
          /\ Cardinality(Started) = arg.queues * arg.threads
          /\ \A w \in Started :
                /\ w \in 0..(arg.queues * arg.threads - 1)
                /\ src_key(w) = SrcKeyOf(w % arg.queues)
                /\ dst_key(w) = DstKeyOf(w % arg.queues)
          /\ \A q \in 0..(arg.queues - 1) :
                Cardinality({w \in Started : w % arg.queues = q
                                              /\ src_key(w) = get_src_key(q)
                                              /\ dst_key(w) = get_dst_key(q)})
                  = arg.threads

\* every rpop of move thread w takes from the list of its source key and
\* every lpush of it adds to the list of its destination key, and to no other
C15_Step(w) ==
    /\ popped'[w] # popped[w] =>
          /\ src'[SrcKeyOf(w % arg.queues)] # src[SrcKeyOf(w % arg.queues)]
          /\ \A key \in SrcKeys \ {SrcKeyOf(w % arg.queues)} : src'[key] = src[key]
    /\ (RedisMode /\ pc[w] = "push" /\ pc'[w] = "add") =>
          /\ dst'[DstKeyOf(w % arg.queues)] # dst[DstKeyOf(w % arg.queues)]
          /\ \A key \in DstKeys \ {DstKeyOf(w % arg.queues)} : dst'[key] = dst[key]

\* C15: queues * threads move threads are started, numbered from 0; thread i
\* works all its life on the keys of queue index i mod queues, each the prefix
\* alone (only_prefix = 1) or the prefix followed by the index in decimal; each
\* index has threads move threads.
C15_Assignment == []C15_State /\ [][\A w \in Movers : C15_Step(w)]_vars

\* two queues: thread 1 has moved a value from the second source key to the
\* second destination key
C15_Witness ==
    /\ arg.queues = 2 /\ RedisMode
    /\ src_key(1) = "q:1" /\ dst_key(1) = "p:1"
    /\ num_moved[1] >= 1 /\ dst[dst_key(1)] # <<>>

\* --------------------------------------------------------------- C16
\* the positions at which a move thread is inside millisleep(retry_interval)
Sleeping == {"idle", "retry"}

C16_Step(w) ==
    \* it begins to sleep only after a pass that popped nothing or a failed lpush
    /\ (pc[w] \notin Sleeping /\ pc'[w] \in Sleeping) =>
          \/ pc[w] \in {"for", "write"} /\ taken'[w] = 0
          \/ pc[w] = "push" /\ dst' = dst
    \* a pass that ends having popped nothing is followed by the sleep, with no
    \* call to a store in between
    /\ (pc[w] = "for" /\ pc'[w] \notin {"for", "write"} /\ taken'[w] = 0) =>
          pc'[w] = "idle" /\ dst' = dst /\ file' = file
    \* a failed lpush is followed by the sleep
    /\ (pc[w] = "push" /\ pc'[w] \notin {"push", "add"}) => pc'[w] = "retry"
    \* a delivered Batch is followed by the next pass
    /\ (pc[w] = "add" /\ pc'[w] # "add") => pc'[w] = "top"

\* C16: a move thread sleeps retry_interval exactly after an accumulation
\* pass that popped nothing and after a failed push; after a pass whose
\* values were delivered it goes on to the next pass without sleeping.
C16_SleepPoints == [][\A w \in Movers : C16_Step(w)]_vars

\* --------------------------------------------------------------- C17
\* a step of move thread w, inside its accumulation pass, whose rpop threw:
\* the loop test passed and the thread moved on without a value, although
\* the list was not empty or the pass did not end
C17_PopThrew(w) ==
    /\ pc[w] = "for" /\ ~g_stop /\ k[w] < arg.batch
    /\ popped'[w] = popped[w]
    /\ <<pc[w], k[w], values[w]>>' # <<pc[w], k[w], values[w]>>
    /\ (src[src_key(w)] # <<>> \/ pc'[w] = "for")

C17_Step(w) ==
    /\ C17_PopThrew(w) =>
          /\ values'[w] = values[w] /\ taken'[w] = taken[w]
          /\ pc'[w] = "for"
          /\ g_stop' = g_stop
          /\ k'[w] = k[w] + 1
          /\ UNCHANGED stores
    /\ popped'[w] # popped[w] => (pc[w] = "for" /\ k[w] < arg.batch)

\* C17: an rpop that throws inside a pass leaves values, the flag and the
\* stores as they are, the pass goes on, and the attempt is counted by k; no
\* rpop is made once k has reached --batch.
C17_PopErrorRecovered ==
    [](\A w \in Movers : k[w] <= arg.batch)
    /\ [][\A w \in Movers : C17_Step(w)]_vars

\* a pass of two attempts: one rpop threw, the other gave a value that is
\* still held, and the list is not empty
C17_Witness ==
    \E w \in Movers :
        /\ RedisMode /\ arg.batch = 2
        /\ pc[w] = "for" /\ k[w] = 2 /\ Len(values[w]) = 1
        /\ src[src_key(w)] # <<>> /\ num_threads = 1

\* --------------------------------------------------------------- C18
MoversEnded == \A w \in Movers : pc[w] = "done"

\* main passes its joins in order: the move threads, the stat thread, the
\* signal thread; at return 0 the flag is true
C18_Order ==
    /\ mainpc \in {"join_stat", "join_signal", "exit0"} => MoversEnded
    /\ mainpc \in {"join_signal", "exit0"} => statpc = "done"
    /\ mainpc = "exit0" => (sigpc = "done" /\ g_stop)

\* with every move thread ended, the process goes on for as long as the
\* signal thread has not seen the flag true
C18_Waits ==
    (Started # {} /\ MoversEnded /\ sigpc # "done") =>
        (Running /\ mainpc # "exit0" /\ sigpc = "run")

\* the signal thread, and the loop of the stat thread, end only on reading
\* the flag as true
C18_Step ==
    /\ (sigpc # "done" /\ sigpc' = "done") => g_stop
    /\ (statpc = "test" /\ statpc' = "done") => g_stop

RECURSIVE SumOfDeltas(_)
SumOfDeltas(lines) ==
    IF lines = <<>> THEN 0 ELSE Head(lines)[3] + SumOfDeltas(Tail(lines))

\* the stat thread takes a sample
C19_Samples == statpc = "sleep" /\ statpc' = "test"

C19_Step ==
    /\ C19_Samples =>
          /\ old_num_moved' = g_num_moved
          /\ g_num_moved > old_num_moved =>
                /\ Len(stat_log') = Len(stat_log) + 1
                /\ SubSeq(stat_log', 1, Len(stat_log)) = stat_log
                /\ stat_log'[Len(stat_log')][1] = g_num_moved
                /\ stat_log'[Len(stat_log')][2] = old_num_moved
                /\ stat_log'[Len(stat_log')][3] = g_num_moved - old_num_moved
          /\ ~(g_num_moved > old_num_moved) => stat_log' = stat_log
    /\ ~C19_Samples => (stat_log' = stat_log /\ old_num_moved' = old_num_moved)

\* C19: a sample larger than the previous one adds one line to the stat log,
\* carrying the sample, the previous sample and their difference; any other
\* sample adds none; the sample then becomes the previous one, and the
\* differences of all lines add up to the last sample.
C19_StatLines ==
    [](SumOfDeltas(stat_log) = old_num_moved) /\ [][C19_Step]_vars

\* two lines, the second for a counter that grew from 1 to 3; the stat
\* thread is about to sample the unchanged counter
C19_Witness ==
    /\ Len(stat_log) = 2 /\ stat_log[2] = <<3, 1, 2, 1>>
    /\ statpc = "sleep" /\ old_num_moved = 3 /\ g_num_moved = 3

\* --------------------------------------------------------------- C20
\* a move thread that has ended holds nothing undelivered: every value it
\* popped is on its destination list and counted
C20_State ==
    RedisMode =>
        \A w \in Movers :
            pc[w] = "done" =>
                /\ num_moved[w] = Len(popped[w])
                /\ \A v \in Range(popped[w]) : Count(v, dst[dst_key(w)]) = 1

\* with the flag true a move thread inside its pass pops nothing more and
\* leaves the pass for the push when it holds values
C20_Step(w) ==
    (RedisMode /\ g_stop /\ pc[w] = "for") =>
        /\ popped'[w] = popped[w] /\ values'[w] = values[w]
        /\ pc'[w] \in {"for", IF values[w] = <<>> THEN "idle" ELSE "push"}

\* C20: redis destination: once the flag is true a move thread inside its
\* pass pops no more and goes on to push what it holds; a move thread that
\* has ended has delivered and counted every value it popped.
C20_PartialBatchDelivered ==
    []C20_State /\ [][\A w \in Movers : C20_Step(w)]_vars

\* --batch=2: the thread has ended having moved one value in a Batch of one
\* while the source still holds a value
C20_Witness ==
    /\ RedisMode /\ num_threads = 1 /\ arg.batch = 2 /\ g_stop
    /\ pc[0] = "done" /\ Len(popped[0]) = 1 /\ num_moved[0] = 1
    /\ g_num_moved = 1 /\ src[src_key(0)] # <<>>
====
